---- MODULE Spec2Model ----
(***************************************************************************)
(* Real-time face and eye detection application (main.py).                 *)
(*                                                                         *)
(* The module models three things:                                         *)
(*   - FPSCalculator (the rolling frame-rate estimator),                   *)
(*   - detect_faces_and_eyes (downscale, classify, rescale, eye ROI pass), *)
(*   - main (initialisation, the capture loop, the handlers and finally).  *)
(*                                                                         *)
(* Spec       : the whole program, main() from its first line to exit.     *)
(* FairSpec   : Spec plus weak fairness of the interpreter's own steps.    *)
(* SpecFPS    : an FPSCalculator of any capacity under any call sequence.  *)
(* SpecDetect : detect_faces_and_eyes on any frame size and classifier     *)
(*              answer.                                                    *)
(***************************************************************************)
EXTENDS Integers, Sequences, FiniteSets, TLC

VARIABLES
    pc,                \* position of main(): see the PC* sets below
    fps_calculator,    \* the FPSCalculator object: frame_times, last_time, maxlen
    fps,               \* last value returned by FPSCalculator.update(), as <<num, den>>
    updates,           \* SpecFPS: number of update() calls made
    pushes,            \* SpecFPS: number of those calls that appended a sample
    ret,               \* main: ret of the last cap.read()
    key_pending,       \* key the user has pressed and waitKey has not yet returned
    frame_count,       \* main: frame_count
    frame,             \* <<width, height>> of the frame handed to detection
    raw_faces,         \* what face_cascade.detectMultiScale returned (downscaled coords)
    eye_rois,          \* the crops handed to eye_cascade.detectMultiScale, one per call
    eyes_in_face,      \* what eye_cascade.detectMultiScale returned, one entry per call
    faces,             \* detect_faces_and_eyes: faces returned
    eyes,              \* detect_faces_and_eyes: eyes returned
    overlay,           \* what the last rendered frame shows
    window_shown,      \* cv2.imshow has put the frame in the window
    screenshot_saved,  \* detection_screenshot.jpg has been written
    cap_opened,        \* the camera has been opened by initialize_camera
    cap_released,      \* number of cap.release() calls
    windows_destroyed, \* number of cv2.destroyAllWindows() calls
    totals_printed,    \* number of times the session statistics were printed
    closed_printed,    \* the closing message at the end of the finally block was printed
    exit_path,         \* how the program left initialisation or the loop
    uncaught,          \* where an exception that nothing catches was raised
    exit_code          \* process exit code, -1 while the process runs

vars == <<pc, fps_calculator, fps, updates, pushes, ret, key_pending,
          frame_count, frame, raw_faces, eye_rois, eyes_in_face, faces, eyes, overlay,
          window_shown, screenshot_saved, cap_opened, cap_released, windows_destroyed,
          totals_printed, closed_printed, exit_path, uncaught, exit_code>>

fpsVars == <<fps_calculator, fps, updates, pushes>>
loopVars == <<ret, key_pending, frame_count>>
displayVars == <<overlay, window_shown, screenshot_saved>>
detectVars == <<frame, raw_faces, eye_rois, eyes_in_face, faces, eyes>>
cleanupVars == <<cap_released, windows_destroyed, totals_printed, closed_printed>>
exitVars == <<exit_path, uncaught, exit_code>>

----------------------------------------------------------------------------
(* Bounds of the model *)

\* main: clock readings are 0..MaxTime
MaxTime == 1
\* SpecFPS: clock readings are 0..MaxClock
MaxClock == 3
\* capacity of the estimator built by main (FPS_QUEUE_SIZE, 30 in the source, scaled down)
FPS_QUEUE_SIZE == 1
\* SpecFPS: capacities 1..MaxQueueSize
MaxQueueSize == 3
\* SpecFPS: at most MaxUpdates calls of update()
MaxUpdates == 5
\* main: frame_count is counted exactly up to MaxFrames and then held
MaxFrames == 1
\* frames are up to MaxFrameDim pixels wide and high
MaxFrameDim == 63
\* SpecDetect: the face classifier returns at most MaxFacesDetect boxes
MaxFacesDetect == 2
\* main: the face classifier returns at most MaxFaces boxes
MaxFaces == 6
\* the eye classifier returns at most MaxEyesPerFace boxes per crop
MaxEyesPerFace == 1

----------------------------------------------------------------------------
(* Program constants *)

\* DETECTION_SCALE = 0.5, as the fraction DETECTION_SCALE_NUM / DETECTION_SCALE_DEN
DETECTION_SCALE_NUM == 1
DETECTION_SCALE_DEN == 2
\* FACE_MIN_SIZE = (30, 30), EYE_MIN_SIZE = (15, 15)
FACE_MIN_SIZE == 30
EYE_MIN_SIZE == 15
\* display_face_count = min(face_count, 5)
DISPLAY_FACE_CAP == 5

----------------------------------------------------------------------------
(* Helpers *)

Min(a, b) == IF a < b THEN a ELSE b

RECURSIVE SeqSum(_)
SeqSum(s) == IF s = <<>> THEN 0 ELSE Head(s) + SeqSum(Tail(s))

\* mutant: a list that is never trimmed
DequeAppend_Unbounded(q, x, maxlen) == Append(q, x)

\* collections.deque(maxlen=n).append(x)
DequeAppend(q, x, maxlen) ==
    IF maxlen = 0 THEN q
    ELSE IF Len(q) >= maxlen THEN Append(Tail(q), x)
    ELSE Append(q, x)

\* a frame rate n/d, kept as the pair <<n, d>>; 0.0 is <<0, 1>>
FpsZero == <<0, 1>>
FpsEq(a, b) == a[1] * b[2] = b[1] * a[2]
FpsIsZero(a) == a[1] = 0

----------------------------------------------------------------------------
(* FPSCalculator *)

FPSCalculator_init(queue_size, t) ==
    [frame_times |-> <<>>, last_time |-> t, maxlen |-> queue_size]

\* the object before main constructs it
NoCalculator == [frame_times |-> <<>>, last_time |-> 0, maxlen |-> 0]

\* mutant: the sample is appended whatever its sign
FPSCalculator_update_NoGuard(self, current_time) ==
    LET frame_time == current_time - self.last_time
        times == DequeAppend(self.frame_times, frame_time, self.maxlen)
        total == SeqSum(times)
    IN  [self |-> [frame_times |-> times, last_time |-> current_time,
                   maxlen |-> self.maxlen],
         fps  |-> IF Len(times) > 0
                  THEN (IF total > 0 THEN <<Len(times), total>> ELSE FpsZero)
                  ELSE FpsZero]

\* update(): the new object state and the value returned
FPSCalculator_update(self, current_time) ==
    LET frame_time == current_time - self.last_time
        times == IF frame_time > 0
                 THEN DequeAppend(self.frame_times, frame_time, self.maxlen)
                 ELSE self.frame_times
        total == SeqSum(times)
    IN  [self |-> [frame_times |-> times, last_time |-> current_time,
                   maxlen |-> self.maxlen],
         fps  |-> IF Len(times) > 0
                  THEN (IF total > 0 THEN <<Len(times), total>> ELSE FpsZero)
                  ELSE FpsZero]

----------------------------------------------------------------------------
(* detect_faces_and_eyes.  A box is the tuple <<x, y, w, h>>. *)

\* cvRound(n / d) for n >= 0: nearest integer, a tie going to the even one
CvRound(n, d) ==
    LET q == n \div d
        r == n % d
    IN  IF 2 * r < d THEN q
        ELSE IF 2 * r > d THEN q + 1
        ELSE IF q % 2 = 0 THEN q ELSE q + 1

\* cv2.resize(frame, None, fx=DETECTION_SCALE, fy=DETECTION_SCALE): size of small_frame
SmallFrame(fr) ==
    <<CvRound(fr[1] * DETECTION_SCALE_NUM, DETECTION_SCALE_DEN),
      CvRound(fr[2] * DETECTION_SCALE_NUM, DETECTION_SCALE_DEN)>>

\* int(v / DETECTION_SCALE) for v >= 0
Unscale(v) == (v * DETECTION_SCALE_DEN) \div DETECTION_SCALE_NUM

\* the list comprehension that scales the faces back to the frame's size
ScaleFaces(raw) ==
    [i \in 1..Len(raw) |->
        <<Unscale(raw[i][1]), Unscale(raw[i][2]), Unscale(raw[i][3]), Unscale(raw[i][4])>>]

\* gray_full[fy:fy+fh, fx:fx+fw]: size of the crop, slices being cut at the array's end
Roi(fr, f) ==
    <<Min(f[1] + f[3], fr[1]) - Min(f[1], fr[1]),
      Min(f[2] + f[4], fr[2]) - Min(f[2], fr[2])>>

\* the crops the for loop hands to eye_cascade.detectMultiScale, one per face
EyeRois(fr, fs) == [i \in 1..Len(fs) |-> Roi(fr, fs[i])]

\* mutant: the face's row is not added
TranslateEyes_NoRowOffset(f, found) ==
    [j \in 1..Len(found) |->
        <<f[1] + found[j][1], found[j][2], found[j][3], found[j][4]>>]

\* eyes.append((fx + ex, fy + ey, ew, eh)) for the eyes found in one face
TranslateEyes(f, found) ==
    [j \in 1..Len(found) |->
        <<f[1] + found[j][1], f[2] + found[j][2], found[j][3], found[j][4]>>]

\* the for loop over the faces: eyes in face order
RECURSIVE CollectEyes(_, _, _)
CollectEyes(fs, answers, i) ==
    IF i > Len(fs) THEN <<>>
    ELSE TranslateEyes(fs[i], answers[i]) \o CollectEyes(fs, answers, i + 1)

(* The classifiers are opaque: detectMultiScale returns boxes of at least
   minSize that lie inside the image it was given.  The answers enumerated are
   the extreme ones: the smallest box in the near corner, the smallest box in
   the far corner, and the box that spans the image. *)
BoxesIn(size, minSize) ==
    IF size[1] < minSize \/ size[2] < minSize THEN {}
    ELSE {<<0, 0, minSize, minSize>>,
          <<size[1] - minSize, size[2] - minSize, minSize, minSize>>,
          <<0, 0, size[1], size[2]>>}

SeqsUpTo(S, n) == UNION {[1..k -> S] : k \in 0..n}

\* face_cascade.detectMultiScale(gray, minSize=FACE_MIN_SIZE): up to n boxes
FaceAnswers(fr, n) == SeqsUpTo(BoxesIn(SmallFrame(fr), FACE_MIN_SIZE), n)

\* eye_cascade.detectMultiScale(roi_gray, minSize=EYE_MIN_SIZE): one answer per crop
RECURSIVE EyeAnswersFrom(_, _)
EyeAnswersFrom(rois, i) ==
    IF i > Len(rois) THEN {<<>>}
    ELSE {<<h>> \o t :
            h \in SeqsUpTo(BoxesIn(rois[i], EYE_MIN_SIZE), MaxEyesPerFace),
            t \in EyeAnswersFrom(rois, i + 1)}

EyeAnswers(rois) == EyeAnswersFrom(rois, 1)

\* detect_faces_and_eyes(frame, face_cascade, eye_cascade), the classifiers
\* answering raw (faces) and answers (eyes, per crop)
detect_faces_and_eyes(fr, raw, answers) ==
    /\ frame' = fr
    /\ raw_faces' = raw
    /\ faces' = ScaleFaces(raw)
    /\ eye_rois' = EyeRois(fr, ScaleFaces(raw))
    /\ eyes_in_face' = answers
    /\ eyes' = CollectEyes(ScaleFaces(raw), answers, 1)

\* frames large enough for a face of FACE_MIN_SIZE in the downscaled image
FrameDims == (2 * FACE_MIN_SIZE + 1)..MaxFrameDim
FrameSizes == FrameDims \X FrameDims

----------------------------------------------------------------------------
(* State before anything has run *)

NoOverlay ==
    [face_rects |-> <<>>, eye_rects |-> <<>>, face_count |-> 0, eye_count |-> 0,
     fps |-> FpsZero]

Idle ==
    /\ fps = FpsZero /\ updates = 0 /\ pushes = 0
    /\ ret = FALSE /\ key_pending = "none" /\ frame_count = 0
    /\ raw_faces = <<>> /\ eye_rois = <<>> /\ eyes_in_face = <<>>
    /\ faces = <<>> /\ eyes = <<>>
    /\ overlay = NoOverlay /\ window_shown = FALSE /\ screenshot_saved = FALSE
    /\ cap_opened = FALSE /\ cap_released = 0 /\ windows_destroyed = 0
    /\ totals_printed = 0 /\ closed_printed = FALSE
    /\ exit_path = "none" /\ uncaught = "none" /\ exit_code = -1

\* time.time(): the wall clock's reading at a call; it may stand still or be set back
ClockReadings(maxTime) == 0..maxTime

----------------------------------------------------------------------------
(* SpecFPS: one FPSCalculator, update() called at any times *)

InitFPS ==
    /\ pc = "fps_unit"
    /\ \E queue_size \in 1..MaxQueueSize, t \in ClockReadings(MaxClock) :
            fps_calculator = FPSCalculator_init(queue_size, t)
    /\ frame = <<0, 0>>
    /\ Idle

CallUpdate ==
    /\ pc = "fps_unit"
    /\ updates < MaxUpdates
    /\ \E t \in ClockReadings(MaxClock) :
         LET r == FPSCalculator_update(fps_calculator, t)
         IN  /\ fps_calculator' = r.self
             /\ fps' = r.fps
             /\ pushes' = IF t - fps_calculator.last_time > 0 THEN pushes + 1 ELSE pushes
    /\ updates' = updates + 1
    /\ UNCHANGED <<pc, loopVars, detectVars, displayVars, cap_opened,
                   cleanupVars, exitVars>>

NextFPS == CallUpdate

SpecFPS == InitFPS /\ [][NextFPS]_vars

----------------------------------------------------------------------------
(* SpecDetect: one call of detect_faces_and_eyes on any frame *)

InitDetect ==
    /\ pc = "detect_unit"
    /\ fps_calculator = NoCalculator
    /\ frame \in FrameSizes
    /\ Idle

CallDetect ==
    /\ pc = "detect_unit"
    /\ \E raw \in FaceAnswers(frame, MaxFacesDetect) :
         \E answers \in EyeAnswers(EyeRois(frame, ScaleFaces(raw))) :
            detect_faces_and_eyes(frame, raw, answers)
    /\ pc' = "detect_done"
    /\ UNCHANGED <<fpsVars, loopVars, displayVars, cap_opened, cleanupVars,
                   exitVars>>

NextDetect == CallDetect

SpecDetect == InitDetect /\ [][NextDetect]_vars

----------------------------------------------------------------------------
(* Spec: main() *)

PCInit == {"cascades", "camera", "fps_init"}
PCLoop == {"read", "check_ret", "detect", "render", "wait_key"}
PCHandler == {"except_kbd", "except_exc"}
PCFinally == {"fin_release", "fin_destroy", "fin_stats"}

\* the states of the capture loop's life cycle
Lifecycle ==
    IF pc \in PCInit THEN "Initializing"
    ELSE IF pc \in PCLoop THEN "Running"
    ELSE IF pc \in PCHandler \cup PCFinally THEN "ShuttingDown"
    ELSE "Terminated"

\* the frame the camera delivers
CameraFrame == <<2 * FACE_MIN_SIZE + 2, 2 * FACE_MIN_SIZE + 2>>

\* main: what the classifiers answer on the camera's frame: n faces, k eyes in each
FixtureFaces(n) ==
    [i \in 1..n |-> <<i % 2, (i \div 2) % 2, FACE_MIN_SIZE, FACE_MIN_SIZE>>]
FixtureEyes(rois, k) ==
    [i \in 1..Len(rois) |-> [j \in 1..k |-> <<j - 1, 0, EYE_MIN_SIZE, EYE_MIN_SIZE>>]]

Init ==
    /\ pc = "cascades"
    /\ fps_calculator = NoCalculator
    /\ frame = <<0, 0>>
    /\ Idle

\* sys.exit(1)
SysExit(path) ==
    /\ pc' = "exited"
    /\ exit_code' = 1
    /\ exit_path' = path
    /\ UNCHANGED uncaught

\* [1/3]: initialize_cascades() and the check of its result
LoadCascades ==
    /\ pc = "cascades"
    /\ \E loaded \in BOOLEAN :
            IF loaded
            THEN pc' = "camera" /\ UNCHANGED exitVars
            ELSE SysExit("cascade_fail")
    /\ UNCHANGED <<fpsVars, loopVars, detectVars, displayVars, cap_opened,
                   cleanupVars>>

\* mutant: the failure is reported and main goes on
InitCamera_NoExit ==
    /\ pc = "camera"
    /\ \E opened \in BOOLEAN :
            IF opened
            THEN pc' = "fps_init" /\ cap_opened' = TRUE /\ UNCHANGED exitVars
            ELSE /\ pc' = "fps_init"
                 /\ exit_path' = "camera_fail"
                 /\ UNCHANGED <<cap_opened, uncaught, exit_code>>
    /\ UNCHANGED <<fpsVars, loopVars, detectVars, displayVars, cleanupVars>>

\* [2/3]: initialize_camera(0) and the check of its result
InitCamera ==
    /\ pc = "camera"
    /\ \E opened \in BOOLEAN :
            IF opened
            THEN pc' = "fps_init" /\ cap_opened' = TRUE /\ UNCHANGED exitVars
            ELSE SysExit("camera_fail") /\ UNCHANGED cap_opened
    /\ UNCHANGED <<fpsVars, loopVars, detectVars, displayVars, cleanupVars>>

\* [3/3]: FPSCalculator(FPS_QUEUE_SIZE), frame_count = 0, and into the try block
InitFps ==
    /\ pc = "fps_init"
    /\ \E t \in ClockReadings(MaxTime) :
            fps_calculator' = FPSCalculator_init(FPS_QUEUE_SIZE, t)
    /\ frame_count' = 0
    /\ pc' = "read"
    /\ UNCHANGED <<fps, updates, pushes, ret, key_pending, detectVars,
                   displayVars, cap_opened, cleanupVars, exitVars>>

\* ret, frame = cap.read()
Read ==
    /\ pc = "read"
    /\ \E r \in BOOLEAN :
            /\ ret' = r
            /\ frame' = IF r THEN CameraFrame ELSE frame
    /\ pc' = "check_ret"
    /\ UNCHANGED <<fpsVars, key_pending, frame_count, raw_faces, eye_rois,
                   eyes_in_face, faces, eyes, displayVars, cap_opened, cleanupVars,
                   exitVars>>

\* mutant: the failed acquisition is counted as a frame
CheckRet_CountsFailure ==
    /\ pc = "check_ret"
    /\ pc' = IF ret THEN "detect" ELSE "read"
    /\ frame_count' = IF ret THEN frame_count ELSE frame_count + 1
    /\ UNCHANGED <<fpsVars, ret, key_pending, detectVars, displayVars, cap_opened,
                   cleanupVars, exitVars>>

\* if not ret: print the warning and continue
CheckRet ==
    /\ pc = "check_ret"
    /\ pc' = IF ret THEN "detect" ELSE "read"
    /\ UNCHANGED <<fpsVars, loopVars, detectVars, displayVars, cap_opened,
                   cleanupVars, exitVars>>

\* faces, eyes = detect_faces_and_eyes(frame, face_cascade, eye_cascade)
Detect ==
    /\ pc = "detect"
    /\ \E n \in 0..MaxFaces, k \in 0..1 :
            detect_faces_and_eyes(frame, FixtureFaces(n),
                FixtureEyes(EyeRois(frame, ScaleFaces(FixtureFaces(n))), k))
    /\ pc' = "render"
    /\ UNCHANGED <<fpsVars, loopVars, displayVars, cap_opened, cleanupVars,
                   exitVars>>

\* mutant: the count is shown as it is
DisplayFaceCount_Uncapped(face_count) == face_count

\* display_face_count = min(face_count, 5)
DisplayFaceCount(face_count) == Min(face_count, DISPLAY_FACE_CAP)

\* draw_detections and draw_statistics: what the frame shows afterwards
DrawOverlay(fs, es, face_count, eye_count, rate) ==
    [face_rects |-> fs, eye_rects |-> es, face_count |-> face_count,
     eye_count |-> eye_count, fps |-> rate]

\* fps_calculator.update(), the counts, the drawing and cv2.imshow
UpdateAndRender ==
    /\ pc = "render"
    /\ \E t \in ClockReadings(MaxTime) :
         LET r == FPSCalculator_update(fps_calculator, t)
         IN  /\ fps_calculator' = r.self
             /\ fps' = r.fps
             /\ overlay' = DrawOverlay(faces, eyes, DisplayFaceCount(Len(faces)),
                                       Len(eyes), r.fps)
    /\ window_shown' = TRUE
    /\ pc' = "wait_key"
    /\ UNCHANGED <<updates, pushes, loopVars, detectVars, screenshot_saved,
                   cap_opened, cleanupVars, exitVars>>

\* frame_count += 1, counted exactly up to MaxFrames
CountFrame(n) == IF n < MaxFrames THEN n + 1 ELSE n

\* mutant: the quit key is read and not acted on
WaitKey_IgnoresQuit ==
    /\ pc = "wait_key"
    /\ key_pending' = "none"
    /\ screenshot_saved' = (screenshot_saved \/ key_pending = "s")
    /\ frame_count' = CountFrame(frame_count)
    /\ pc' = "read"
    /\ UNCHANGED <<fpsVars, ret, detectVars, overlay, window_shown, cap_opened,
                   cleanupVars, exitVars>>

\* key = cv2.waitKey(1) & 0xFF and the branches on it, to the end of the iteration
WaitKey ==
    /\ pc = "wait_key"
    /\ key_pending' = "none"
    /\ IF key_pending = "q"
       THEN /\ pc' = "fin_release"
            /\ exit_path' = "quit"
            /\ UNCHANGED <<frame_count, screenshot_saved>>
       ELSE /\ screenshot_saved' = (screenshot_saved \/ key_pending = "s")
            /\ frame_count' = CountFrame(frame_count)
            /\ pc' = "read"
            /\ UNCHANGED exit_path
    /\ UNCHANGED <<fpsVars, ret, detectVars, overlay, window_shown, cap_opened,
                   cleanupVars, uncaught, exit_code>>

\* the user presses a key in the window
PressKey ==
    /\ pc \in PCLoop
    /\ key_pending = "none"
    /\ \E k \in {"q", "s", "x"} : key_pending' = k
    /\ UNCHANGED <<pc, fpsVars, ret, frame_count, detectVars, displayVars,
                   cap_opened, cleanupVars, exitVars>>

\* KeyboardInterrupt is raised in main: before the try block nothing catches it,
\* in the try block its handler does, in a handler the finally block still runs,
\* in the finally block the rest of the block is lost
KeyboardInterrupt ==
    /\ \/ /\ pc \in PCInit
          /\ pc' = "exited"
          /\ exit_path' = "startup_interrupt"
          /\ uncaught' = "startup"
          /\ exit_code' = 130
       \/ /\ pc \in PCLoop
          /\ pc' = "except_kbd"
          /\ exit_path' = "interrupt"
          /\ UNCHANGED <<uncaught, exit_code>>
       \/ /\ pc \in PCHandler
          /\ pc' = "fin_release"
          /\ uncaught' = "handler"
          /\ UNCHANGED <<exit_path, exit_code>>
       \/ /\ pc \in PCFinally
          /\ pc' = "exited"
          /\ uncaught' = "cleanup"
          /\ exit_code' = 130
          /\ UNCHANGED exit_path
    /\ UNCHANGED <<fpsVars, loopVars, detectVars, displayVars, cap_opened,
                   cleanupVars>>

\* any other exception is raised in the try block
Fault ==
    /\ pc \in PCLoop
    /\ pc' = "except_exc"
    /\ exit_path' = "fault"
    /\ UNCHANGED <<fpsVars, loopVars, detectVars, displayVars, cap_opened,
                   cleanupVars, uncaught, exit_code>>

\* except KeyboardInterrupt: the message
ExceptKeyboardInterrupt ==
    /\ pc = "except_kbd"
    /\ pc' = "fin_release"
    /\ UNCHANGED <<fpsVars, loopVars, detectVars, displayVars, cap_opened,
                   cleanupVars, exitVars>>

\* mutant: the exception is reported and the process ends, with no finally block
ExceptException_NoFinally ==
    /\ pc = "except_exc"
    /\ pc' = "exited"
    /\ exit_code' = 0
    /\ UNCHANGED <<fpsVars, loopVars, detectVars, displayVars, cap_opened,
                   cleanupVars, exit_path, uncaught>>

\* except Exception: the message and the traceback
ExceptException ==
    /\ pc = "except_exc"
    /\ pc' = "fin_release"
    /\ UNCHANGED <<fpsVars, loopVars, detectVars, displayVars, cap_opened,
                   cleanupVars, exitVars>>

\* finally: cap.release()
FinallyRelease ==
    /\ pc = "fin_release"
    /\ cap_released' = cap_released + 1
    /\ pc' = "fin_destroy"
    /\ UNCHANGED <<fpsVars, loopVars, detectVars, displayVars, cap_opened,
                   windows_destroyed, totals_printed, closed_printed, exitVars>>

\* finally: cv2.destroyAllWindows()
FinallyDestroy ==
    /\ pc = "fin_destroy"
    /\ windows_destroyed' = windows_destroyed + 1
    /\ window_shown' = FALSE
    /\ pc' = "fin_stats"
    /\ UNCHANGED <<fpsVars, loopVars, detectVars, overlay, screenshot_saved,
                   cap_opened, cap_released, totals_printed, closed_printed, exitVars>>

\* mutant: the statistics are printed whatever frame_count is
FinallyStatistics_Unguarded ==
    /\ pc = "fin_stats"
    /\ totals_printed' = totals_printed + 1
    /\ closed_printed' = TRUE
    /\ pc' = "exited"
    /\ exit_code' = IF uncaught = "none" THEN 0 ELSE 130
    /\ UNCHANGED <<fpsVars, loopVars, detectVars, displayVars, cap_opened,
                   cap_released, windows_destroyed, exit_path, uncaught>>

\* finally: the session statistics, the closing message, and the end of main
FinallyStatistics ==
    /\ pc = "fin_stats"
    /\ totals_printed' = IF frame_count > 0 THEN totals_printed + 1 ELSE totals_printed
    /\ closed_printed' = TRUE
    /\ pc' = "exited"
    /\ exit_code' = IF uncaught = "none" THEN 0 ELSE 130
    /\ UNCHANGED <<fpsVars, loopVars, detectVars, displayVars, cap_opened,
                   cap_released, windows_destroyed, exit_path, uncaught>>

\* the steps the interpreter takes by itself
Program ==
    \/ LoadCascades \/ InitCamera \/ InitFps
    \/ Read \/ CheckRet \/ Detect \/ UpdateAndRender \/ WaitKey
    \/ ExceptKeyboardInterrupt \/ ExceptException
    \/ FinallyRelease \/ FinallyDestroy \/ FinallyStatistics

Next ==
    \/ LoadCascades \/ InitCamera \/ InitFps
    \/ Read \/ CheckRet \/ Detect \/ UpdateAndRender \/ WaitKey
    \/ ExceptKeyboardInterrupt \/ ExceptException
    \/ FinallyRelease \/ FinallyDestroy \/ FinallyStatistics
    \/ PressKey \/ KeyboardInterrupt \/ Fault

Spec == Init /\ [][Next]_vars

\* the interpreter keeps running main; the camera, the user and the clock are free
FairSpec == Spec /\ WF_vars(Program)

----------------------------------------------------------------------------
(* Properties *)

LoopExits == {"quit", "interrupt", "fault"}
StartupFailures == {"cascade_fail", "camera_fail"}

\* C1 as stated: on every named exit path (quit, interruption, fault in the loop,
\* failed classifier load, failed camera open) the camera is released and the
\* display torn down exactly once.
C1_CleanupOnEveryExitPath ==
    (pc = "exited" /\ exit_path \in LoopExits \cup StartupFailures /\ uncaught = "none")
        => (cap_released = 1 /\ windows_destroyed = 1)

\* C1 amended: the cleanup never runs twice; it runs exactly once on every exit
\* out of the loop (quit, interruption, fault) whose finally block is not itself
\* interrupted; it runs zero times when a classifier fails to load or the camera
\* fails to open.
C1_CleanupOncePerLoopExit ==
    /\ cap_released <= 1 /\ windows_destroyed <= 1
    /\ (pc = "exited" /\ exit_path \in LoopExits /\ uncaught # "cleanup")
            => (cap_released = 1 /\ windows_destroyed = 1)
    /\ (pc = "exited" /\ exit_path \in StartupFailures)
            => (cap_released = 0 /\ windows_destroyed = 0)

C1_Witness ==
    /\ pc = "exited" /\ exit_path = "fault"
    /\ cap_released = 1 /\ windows_destroyed = 1

\* C2 as stated: a 'q' pressed while the loop is Running leads to Terminated,
\* whatever the camera does.
C2_QuitLeadsToTerminated ==
    (key_pending = "q" /\ Lifecycle = "Running") ~> (pc = "exited")

\* C2 amended: a 'q' pressed while the loop is Running leads to Terminated in
\* every behaviour in which frame acquisition keeps succeeding again (a loop that
\* does not end acquires frames again and again); the key is polled only after a
\* frame has been acquired and shown.
C2_QuitLeadsToTerminatedIfFrames ==
    ([]<>(pc = "check_ret" /\ ret))
        => ((key_pending = "q" /\ Lifecycle = "Running") ~> (pc = "exited"))

C2_Witness ==
    /\ pc = "exited" /\ exit_path = "quit" /\ exit_code = 0 /\ frame_count > 0

\* C3 as stated: every shutdown of a session that entered Running releases the
\* camera, closes the display and then prints the session totals, also when no
\* frame was counted.
C3_TotalsOnEveryShutdown ==
    (pc = "exited" /\ exit_path \in LoopExits /\ uncaught = "none")
        => (cap_released = 1 /\ windows_destroyed = 1 /\ totals_printed = 1)

\* C3 amended: the totals are printed after the camera release and the display
\* teardown, and on a shutdown out of the loop whose finally block runs to its end
\* they are printed exactly when frame_count > 0.
C3_TotalsIffFramesCounted ==
    /\ (windows_destroyed > 0) => (cap_released = 1)
    /\ (totals_printed > 0) => (cap_released = 1 /\ windows_destroyed = 1)
    /\ (closed_printed) => (cap_released = 1 /\ windows_destroyed = 1)
    /\ (pc = "exited" /\ exit_path \in LoopExits /\ uncaught # "cleanup")
            => (totals_printed = IF frame_count > 0 THEN 1 ELSE 0)

C3_Witness ==
    /\ pc = "exited" /\ exit_path = "interrupt" /\ frame_count > 0
    /\ totals_printed = 1 /\ cap_released = 1 /\ windows_destroyed = 1

\* C4: a failed frame acquisition is not fatal and changes nothing: the loop goes
\* back to the acquisition, and frame_count, the estimator (window and time of last
\* call), the detection results, the display and the pending key are as before.
C4_FailedAcquisitionChangesNothing ==
    [][ /\ (pc = "read" /\ pc' = "check_ret" /\ ~ret')
            => UNCHANGED <<frame_count, fpsVars, detectVars, displayVars, key_pending>>
        /\ (pc = "check_ret" /\ ~ret /\ pc' \notin {"check_ret", "except_kbd", "except_exc"})
            => /\ pc' = "read"
               /\ UNCHANGED <<frame_count, fpsVars, detectVars, displayVars,
                              key_pending, exitVars>>
      ]_vars

C4_Witness ==
    /\ pc = "read" /\ ret = FALSE /\ frame_count > 0
    /\ Len(fps_calculator.frame_times) > 0

LifecycleRank(l) ==
    CASE l = "Initializing" -> 0
      [] l = "Running" -> 1
      [] l = "ShuttingDown" -> 2
      [] l = "Terminated" -> 3

\* C5: a failed classifier load or camera open takes the program from Initializing
\* straight to Terminated with a nonzero exit code, without a frame ever being
\* acquired; a session ended by the quit key exits with code 0; the life cycle only
\* moves forward through Initializing, Running, ShuttingDown, Terminated.
C5_StartupFailureAndLifecycle ==
    /\ [](exit_path \in StartupFailures
            => /\ pc = "exited" /\ exit_code # 0 /\ exit_code # -1
               /\ frame = <<0, 0>> /\ fps_calculator = NoCalculator
               /\ ~window_shown)
    /\ []((pc = "exited" /\ exit_path = "quit" /\ uncaught = "none") => exit_code = 0)
    /\ [][ /\ LifecycleRank(Lifecycle') >= LifecycleRank(Lifecycle)
           /\ (exit_path' \in StartupFailures /\ exit_path \notin StartupFailures)
                => (Lifecycle = "Initializing" /\ Lifecycle' = "Terminated")
           /\ (Lifecycle = "Running") => (Lifecycle' \in {"Running", "ShuttingDown"})
           /\ (Lifecycle' = "Running") => (Lifecycle \in {"Initializing", "Running"})
         ]_vars

C5_Witness ==
    /\ pc = "exited" /\ exit_path = "camera_fail" /\ exit_code = 1
    /\ cap_opened = FALSE

\* the delta of an update() call, seen from the step that made it
UpdateDelta == fps_calculator'.last_time - fps_calculator.last_time

\* C6 as stated: the window holds exactly its capacity of samples once update() has
\* been called at least capacity times.
C6_FullAfterCapacityCalls ==
    (updates >= fps_calculator.maxlen)
        => (Len(fps_calculator.frame_times) = fps_calculator.maxlen)

\* C6 amended: the window never holds more than its capacity, a sample arriving at
\* a full window evicts the oldest one, and the window holds exactly
\* min(capacity, number of calls whose delta was positive) samples.
C6_WindowBounded ==
    /\ [](Len(fps_calculator.frame_times) <= fps_calculator.maxlen)
    /\ [](Len(fps_calculator.frame_times) = Min(pushes, fps_calculator.maxlen))
    /\ [][ (/\ updates' = updates + 1
            /\ UpdateDelta > 0
            /\ Len(fps_calculator.frame_times) = fps_calculator.maxlen)
           => fps_calculator'.frame_times =
                Append(Tail(fps_calculator.frame_times), UpdateDelta) ]_vars

C6_Witness ==
    /\ updates >= fps_calculator.maxlen
    /\ pushes > fps_calculator.maxlen
    /\ Len(fps_calculator.frame_times) = fps_calculator.maxlen
    /\ fps_calculator.maxlen >= 2

\* C7: an update() whose delta is zero or negative pushes no sample: the window is
\* unchanged and the FPS returned is the one the previous call returned; every
\* sample in the window is > 0, and update() returns 0 only with an empty window.
C7_NonPositiveDeltaIgnored ==
    /\ [](\A i \in 1..Len(fps_calculator.frame_times) :
                fps_calculator.frame_times[i] > 0)
    /\ [](FpsIsZero(fps) => fps_calculator.frame_times = <<>>)
    /\ [][ (updates' = updates + 1 /\ UpdateDelta <= 0)
           => /\ fps_calculator'.frame_times = fps_calculator.frame_times
              /\ (updates > 0 => FpsEq(fps', fps)) ]_vars

C7_Witness ==
    /\ updates >= 2 /\ pushes >= 1 /\ pushes < updates
    /\ ~FpsIsZero(fps)

WithinFrame(box, fr) ==
    /\ box[1] >= 0 /\ box[2] >= 0
    /\ box[1] + box[3] <= fr[1]
    /\ box[2] + box[4] <= fr[2]

\* C8: every face box detect_faces_and_eyes returns lies within the frame.
C8_FacesWithinFrame ==
    \A i \in 1..Len(faces) : WithinFrame(faces[i], frame)

Inside(e, f) ==
    /\ e[1] >= f[1] /\ e[2] >= f[2]
    /\ e[1] + e[3] <= f[1] + f[3]
    /\ e[2] + e[4] <= f[2] + f[4]

\* number of eyes found in the faces before face i
RECURSIVE EyesBefore(_)
EyesBefore(i) == IF i <= 1 THEN 0 ELSE EyesBefore(i - 1) + Len(eyes_in_face[i - 1])

\* C9: the eyes are listed face by face in face order, every eye lies inside the
\* face box it was searched in, and with no face the eye list is empty and the eye
\* classifier is not called.
C9_EyesInsideTheirFace ==
    /\ Len(eyes_in_face) = Len(faces)
    /\ Len(eyes) = EyesBefore(Len(faces) + 1)
    /\ \A i \in 1..Len(faces) : \A j \in 1..Len(eyes_in_face[i]) :
            LET e == eyes[EyesBefore(i) + j]
            IN  /\ Inside(e, faces[i])
                /\ e[3] = eyes_in_face[i][j][3] /\ e[4] = eyes_in_face[i][j][4]
                /\ e[1] - faces[i][1] = eyes_in_face[i][j][1]
                /\ e[2] - faces[i][2] = eyes_in_face[i][j][2]
    /\ (faces = <<>>) => (eyes = <<>> /\ eye_rois = <<>>)

C9_Witness ==
    /\ pc = "detect_done" /\ Len(faces) = 2 /\ Len(eyes) = 2
    /\ faces[2][1] > 0 /\ faces[2][2] > 0
    /\ eyes[2][1] > faces[2][1]

\* C10: for a processed frame with n detected faces the overlay shows
\* min(n, 5) faces, the eye classifier was called n times and n face boxes are
\* drawn.
C10_DisplayCapOnly ==
    (pc = "wait_key")
        => /\ overlay.face_count = Min(Len(raw_faces), DISPLAY_FACE_CAP)
           /\ Len(eye_rois) = Len(raw_faces)
           /\ Len(overlay.face_rects) = Len(raw_faces)
           /\ overlay.eye_count = Len(eyes)

C10_Witness ==
    /\ pc = "wait_key" /\ Len(raw_faces) > DISPLAY_FACE_CAP
    /\ overlay.face_count = DISPLAY_FACE_CAP
    /\ Len(eye_rois) = Len(raw_faces)

====
